---- MODULE Spec2Model ----
(***************************************************************************)
(* A model of visualizer.py, the OBD2 data visualizer: the CSV normalizer  *)
(* load_data and the Streamlit session around it (one script run per user *)
(* interaction, callbacks first).                                          *)
(*                                                                         *)
(* Text is modelled character by character: a string is a sequence of      *)
(* one-character strings, so that stripping, lower-casing, the substring   *)
(* test, number parsing and string ordering are computed, not assumed.     *)
(* Numbers are exact rationals <<n, d>> with d > 0 (float rounding is not  *)
(* modelled); the missing value NaN is <<0, 0>>.                           *)
(*                                                                         *)
(* Scope of the CSV inputs: every line has as many fields as the header,   *)
(* header names are distinct, numeric cells are unsigned decimal integers, *)
(* a file with a header has at least one data line, and a long-format      *)
(* line always carries a SECONDS and a PID cell.                           *)
(***************************************************************************)
EXTENDS Integers, Sequences, FiniteSets, TLC

VARIABLES uploaded_file, df_pivot, sensor_states_dict, chk, state_keys,
          search_box, normalize, split_graphs, shown

vars == <<uploaded_file, df_pivot, sensor_states_dict, chk, state_keys,
          search_box, normalize, split_graphs, shown>>

(***************************************************************************)
(* Bounds                                                                  *)
(***************************************************************************)
\* the largest number of data lines of an uploaded CSV
MaxRows == 3

(***************************************************************************)
(* Characters and strings                                                  *)
(***************************************************************************)
Digits == {"0", "1", "2", "3", "4", "5", "6", "7", "8", "9"}

DigitValue ==
  ("0" :> 0) @@ ("1" :> 1) @@ ("2" :> 2) @@ ("3" :> 3) @@ ("4" :> 4) @@
  ("5" :> 5) @@ ("6" :> 6) @@ ("7" :> 7) @@ ("8" :> 8) @@ ("9" :> 9)

\* code points of the characters the model's strings are made of
Code ==
  (" " :> 32) @@ ("(" :> 40) @@ (")" :> 41) @@ ("-" :> 45) @@
  ("0" :> 48) @@ ("1" :> 49) @@ ("2" :> 50) @@ ("3" :> 51) @@ ("4" :> 52) @@
  ("5" :> 53) @@ ("6" :> 54) @@ ("7" :> 55) @@ ("8" :> 56) @@ ("9" :> 57) @@
  ("A" :> 65) @@ ("B" :> 66) @@ ("C" :> 67) @@ ("D" :> 68) @@ ("E" :> 69) @@
  ("I" :> 73) @@ ("L" :> 76) @@ ("M" :> 77) @@ ("N" :> 78) @@ ("O" :> 79) @@
  ("P" :> 80) @@ ("R" :> 82) @@ ("S" :> 83) @@ ("T" :> 84) @@ ("U" :> 85) @@
  ("V" :> 86) @@
  ("a" :> 97) @@ ("b" :> 98) @@ ("c" :> 99) @@ ("d" :> 100) @@
  ("e" :> 101) @@ ("i" :> 105) @@ ("l" :> 108) @@ ("m" :> 109) @@
  ("n" :> 110) @@ ("o" :> 111) @@ ("p" :> 112) @@ ("r" :> 114) @@
  ("s" :> 115) @@ ("t" :> 116) @@ ("u" :> 117) @@ ("v" :> 118) @@
  ("x" :> 120)

\* str.lower() on one character
LowerChar(c) ==
  IF Code[c] >= 65 /\ Code[c] <= 90
    THEN CHOOSE l \in DOMAIN Code : Code[l] = Code[c] + 32
    ELSE c

\* str.lower()
Lower(s) == [i \in 1..Len(s) |-> LowerChar(s[i])]

\* the Python test `needle in hay` on strings
Contains(hay, needle) ==
  \E i \in 0..(Len(hay) - Len(needle)) :
    \A j \in 1..Len(needle) : hay[i + j] = needle[j]

\* str.strip(): leading and trailing blanks removed
RECURSIVE Strip(_)
Strip(s) ==
  IF s = <<>> THEN s
  ELSE IF Head(s) = " " THEN Strip(Tail(s))
  ELSE IF s[Len(s)] = " " THEN Strip(SubSeq(s, 1, Len(s) - 1))
  ELSE s

\* Python's ordering of strings: lexicographic by code point
RECURSIVE StrLess(_, _)
StrLess(a, b) ==
  IF b = <<>> THEN FALSE
  ELSE IF a = <<>> THEN TRUE
  ELSE IF Code[Head(a)] # Code[Head(b)] THEN Code[Head(a)] < Code[Head(b)]
  ELSE StrLess(Tail(a), Tail(b))

\* a cell the CSV parser reads as a number
IsNumber(tok) == Len(tok) > 0 /\ \A i \in 1..Len(tok) : tok[i] \in Digits

RECURSIVE NumberOf(_)
NumberOf(tok) ==
  IF tok = <<>> THEN 0
  ELSE 10 * NumberOf(SubSeq(tok, 1, Len(tok) - 1)) + DigitValue[tok[Len(tok)]]

(***************************************************************************)
(* Numbers: exact rationals, NaN                                           *)
(***************************************************************************)
NaN == <<0, 0>>
IsNaN(v) == v[2] = 0

Abs(n) == IF n < 0 THEN -n ELSE n

RECURSIVE GCD(_, _)
GCD(a, b) == IF b = 0 THEN a ELSE GCD(b, a % b)

\* n/d in lowest terms; anything over zero is NaN (pandas: 0/0)
Frac(n, d) ==
  IF d = 0 THEN NaN
  ELSE LET g == GCD(Abs(n), Abs(d))
           s == IF d < 0 THEN -1 ELSE 1
       IN  <<(s * n) \div g, (s * d) \div g>>

FromInt(n) == <<n, 1>>
FracAdd(a, b) == Frac(a[1] * b[2] + b[1] * a[2], a[2] * b[2])
FracSub(a, b) == Frac(a[1] * b[2] - b[1] * a[2], a[2] * b[2])
FracDiv(a, b) == Frac(a[1] * b[2], a[2] * b[1])
FracLess(a, b) == a[1] * b[2] < b[1] * a[2]
FracLeq(a, b) == a[1] * b[2] <= b[1] * a[2]

(***************************************************************************)
(* Column names and the uploaded file                                      *)
(***************************************************************************)
SECONDS == <<"S", "E", "C", "O", "N", "D", "S">>
PID     == <<"P", "I", "D">>
VALUE   == <<"V", "A", "L", "U", "E">>
TIME_MS == <<"t", "i", "m", "e", "(", "m", "s", ")">>
RPM     == <<"R", "P", "M">>
MAP     == <<"M", "A", "P">>
Temp    == <<"T", "e", "m", "p">>

\* the cell "-", the placeholder of the wide format
Dash == <<"-">>
\* an empty cell
Empty == <<>>

\* no file in the uploader (uploaded_file is None)
NoFile == [header |-> <<>>, rows |-> <<>>, present |-> FALSE]
CsvFile(header, rows) == [header |-> header, rows |-> rows, present |-> TRUE]

(***************************************************************************)
(* Tables (pandas DataFrame with an index)                                 *)
(***************************************************************************)
\* index |-> the row keys, columns |-> the set of column names,
\* data |-> for each column the sequence of its cells, one per row key
Table(index, columns, data) ==
  [kind |-> "table", index |-> index, columns |-> columns, data |-> data,
   error |-> "none"]
\* load_data's `return None`
NoneResult ==
  [kind |-> "none", index |-> <<>>, columns |-> {}, data |-> <<>>,
   error |-> "none"]
\* load_data left by an exception
Raised(e) ==
  [kind |-> "raise", index |-> <<>>, columns |-> {}, data |-> <<>>,
   error |-> e]

\* a row key: val when the key column is numeric, str when it holds strings;
\* the null key (an empty cell) has neither
NumKey(v) == [str |-> <<>>, val |-> v]
StrKey(s) == [str |-> s, val |-> NaN]
NullKey == [str |-> <<>>, val |-> NaN]
IsStrKey(k) == k.str # <<>>

\* the order pandas sorts an index by: numbers by value, strings as strings
KeyLess(a, b) ==
  IF IsStrKey(a) \/ IsStrKey(b) THEN StrLess(a.str, b.str)
  ELSE FracLess(a.val, b.val)

RECURSIVE SortKeys(_)
SortKeys(S) ==
  IF S = {} THEN <<>>
  ELSE LET m == CHOOSE k \in S : \A o \in S \ {k} : KeyLess(k, o)
       IN  <<m>> \o SortKeys(S \ {m})

RECURSIVE SumOver(_, _)
SumOver(vals, R) ==
  IF R = {} THEN FromInt(0)
  ELSE LET r == CHOOSE x \in R : TRUE
       IN  FracAdd(vals[r], SumOver(vals, R \ {r}))

\* the aggregation taken as aggfunc='sum'
MeanAsSum(vals, R) ==
  LET present == {r \in R : ~IsNaN(vals[r])}
  IN  IF present = {} THEN NaN ELSE SumOver(vals, present)

\* aggfunc='mean' / GroupBy.mean(): the mean of the group's values that are
\* not NaN, NaN when it has none
Mean(vals, R) ==
  LET present == {r \in R : ~IsNaN(vals[r])}
  IN  IF present = {} THEN NaN
      ELSE FracDiv(SumOver(vals, present), FromInt(Cardinality(present)))

\* DataFrame.sort_index(): the rows reordered by ascending key
SortIndex(t) ==
  LET keys == {t.index[i] : i \in 1..Len(t.index)}
      sorted == SortKeys(keys)
      Pos(k) == CHOOSE i \in 1..Len(t.index) : t.index[i] = k
  IN  Table(sorted, t.columns,
            [c \in t.columns |->
               [i \in 1..Len(sorted) |-> t.data[c][Pos(sorted[i])]]])

\* the table with its empty columns left in
KeepAllColumns(t) == t

\* DataFrame.dropna(axis=1, how='all'): columns with no value are removed
DropEmptyColumns(t) ==
  LET kept == {c \in t.columns :
                 \E i \in 1..Len(t.index) : ~IsNaN(t.data[c][i])}
  IN  Table(t.index, kept, [c \in kept |-> t.data[c]])

RECURSIVE FfillColumn(_)
FfillColumn(s) ==
  IF Len(s) <= 1 THEN s
  ELSE LET p == FfillColumn(SubSeq(s, 1, Len(s) - 1))
           last == s[Len(s)]
       IN  Append(p, IF IsNaN(last) THEN p[Len(p)] ELSE last)

RECURSIVE BfillColumn(_)
BfillColumn(s) ==
  IF Len(s) <= 1 THEN s
  ELSE LET p == BfillColumn(Tail(s))
       IN  <<IF IsNaN(Head(s)) THEN Head(p) ELSE Head(s)>> \o p

\* DataFrame.ffill(), DataFrame.bfill()
Ffill(t) ==
  Table(t.index, t.columns, [c \in t.columns |-> FfillColumn(t.data[c])])
Bfill(t) ==
  Table(t.index, t.columns, [c \in t.columns |-> BfillColumn(t.data[c])])

\* the fill in the other order: .bfill().ffill()
BackwardThenForward(t) == Ffill(Bfill(t))

\* .ffill().bfill()
FillHoles(t) == Bfill(Ffill(t))

(***************************************************************************)
(* load_data                                                               *)
(***************************************************************************)
\* df.columns = df.columns.str.strip()
StripColumns(header) == [i \in 1..Len(header) |-> Strip(header[i])]

HasColumn(columns, name) == \E i \in 1..Len(columns) : columns[i] = name
ColumnIndex(columns, name) ==
  CHOOSE i \in 1..Len(columns) : columns[i] = name

\* read_csv's dtype of a column: numeric when every cell is a number or
\* empty, otherwise the cells stay strings (dtype object)
ColumnIsNumeric(rows, j) ==
  \A r \in 1..Len(rows) : rows[r][j] = Empty \/ IsNumber(rows[r][j])

\* pd.to_numeric(errors='coerce') on one cell
ToNumeric(tok) == IF IsNumber(tok) THEN FromInt(NumberOf(tok)) ELSE NaN

\* df.replace('-', np.nan) on one cell
ReplaceDash(tok) == IF tok = Dash THEN Empty ELSE tok

\* the key of a row of the long format: the SECONDS cell as read_csv typed it
LongKey(tok, numeric) ==
  IF tok = Empty THEN NullKey
  ELSE IF numeric THEN NumKey(FromInt(NumberOf(tok)))
  ELSE StrKey(tok)

\* df.pivot_table(index='SECONDS', columns='PID', values='VALUE',
\* aggfunc='mean'): group by (SECONDS, PID), take each group's mean, drop the
\* groups without a value, unstack PID into columns, drop empty columns
PivotTable(columns, rows) ==
  LET s == ColumnIndex(columns, SECONDS)
      p == ColumnIndex(columns, PID)
      v == ColumnIndex(columns, VALUE)
      n == Len(rows)
      numeric == ColumnIsNumeric(rows, s)
      key == [r \in 1..n |-> LongKey(rows[r][s], numeric)]
      vals == [r \in 1..n |-> ToNumeric(rows[r][v])]
      grouped == {r \in 1..n : key[r] # NullKey /\ rows[r][p] # Empty}
      Group(k, c) == {r \in grouped : key[r] = k /\ rows[r][p] = c}
      agged == {<<key[r], rows[r][p]>> : r \in
                  {x \in grouped : ~IsNaN(Mean(vals, Group(key[x], rows[x][p])))}}
      index == SortKeys({g[1] : g \in agged})
      cols == {g[2] : g \in agged}
  IN  DropEmptyColumns(
        Table(index, cols,
              [c \in cols |->
                 [i \in 1..Len(index) |->
                    IF <<index[i], c>> \in agged
                      THEN Mean(vals, Group(index[i], c))
                      ELSE NaN]]))

\* FORMAT A before the fill (lines 87-88).  The mean of a column of strings
\* is a TypeError.
LongAggregate(columns, rows) ==
  IF ~ColumnIsNumeric(rows, ColumnIndex(columns, VALUE))
    THEN Raised("TypeError")
    ELSE SortIndex(PivotTable(columns, rows))

\* df.groupby('SECONDS').mean().sort_index(): rows without a key are left out
GroupByMean(seconds, sensor_cols, value) ==
  LET n == Len(seconds)
      grouped == {r \in 1..n : ~IsNaN(seconds[r])}
      index == SortKeys({NumKey(seconds[r]) : r \in grouped})
      Group(k) == {r \in grouped : NumKey(seconds[r]) = k}
  IN  SortIndex(
        Table(index, sensor_cols,
              [c \in sensor_cols |->
                 [i \in 1..Len(index) |-> Mean(value[c], Group(index[i]))]]))

\* FORMAT B before the fill (lines 95-112).  Dividing a column of strings
\* is a TypeError.
WideAggregate(columns, rows) ==
  LET t == ColumnIndex(columns, TIME_MS)
      n == Len(rows)
  IN  IF ~ColumnIsNumeric(rows, t) THEN Raised("TypeError")
      ELSE
        LET seconds == [r \in 1..n |->
                          IF rows[r][t] = Empty THEN NaN
                          ELSE FracDiv(FromInt(NumberOf(rows[r][t])), FromInt(1000))]
            sensor_cols == {columns[j] : j \in (1..Len(columns)) \ {t}}
            value == [c \in sensor_cols |->
                        [r \in 1..n |->
                           ToNumeric(ReplaceDash(rows[r][ColumnIndex(columns, c)]))]]
        IN  DropEmptyColumns(GroupByMean(seconds, sensor_cols, value))

\* lines 86 and 93: which format the header announces
IsLongFormat(columns) ==
  HasColumn(columns, SECONDS) /\ HasColumn(columns, PID)
    /\ HasColumn(columns, VALUE)
IsWideFormat(columns) == ~IsLongFormat(columns) /\ HasColumn(columns, TIME_MS)

\* the table of a recognized file before `.ffill().bfill()`
Aggregate(file) ==
  LET columns == StripColumns(file.header)
  IN  IF IsLongFormat(columns) THEN LongAggregate(columns, file.rows)
      ELSE WideAggregate(columns, file.rows)

\* lines 89 and 115: the fill, when nothing was raised before it
Filled(t) == IF t.kind = "table" THEN FillHoles(t) ELSE t

\* load_data(file): pd.read_csv raises EmptyDataError on a file without a
\* header line
load_data(file) ==
  IF file.header = <<>> THEN Raised("EmptyDataError")
  ELSE
    LET columns == StripColumns(file.header)
    IN  IF IsLongFormat(columns) \/ IsWideFormat(columns)
          THEN Filled(Aggregate(file))
          ELSE NoneResult

(***************************************************************************)
(* Session state helpers (lines 122-161)                                   *)
(***************************************************************************)
\* toggle_sensor(sensor_name): the dictionary takes the widget's value
toggle_sensor(dict, widgets, sensor_name) ==
  IF sensor_name \in DOMAIN widgets
    THEN (sensor_name :> widgets[sensor_name]) @@ dict
    ELSE dict

\* get_selected_list(): the names whose value is True
get_selected_list(dict) == {k \in DOMAIN dict : dict[k]}

\* the `matches` of select_visible_matches (lines 138-144)
SelectMatches(dict, search) ==
  LET search_txt == Lower(search)
      all_keys == DOMAIN dict
  IN  IF search_txt # <<>>
        THEN {k \in all_keys : Contains(Lower(k), search_txt)}
        ELSE all_keys

\* select_visible_matches(): every match is set in the dictionary and in
\* its widget key (lines 146-148); the result is <<dictionary, widgets>>
select_visible_matches(dict, widgets, search) ==
  LET matches == SelectMatches(dict, search)
  IN  <<[k \in DOMAIN dict |-> IF k \in matches THEN TRUE ELSE dict[k]],
        [k \in (DOMAIN widgets) \cup matches |->
           IF k \in matches THEN TRUE ELSE widgets[k]]>>

\* deselect_all(): every key of the dictionary is cleared, with its widget
deselect_all(dict, widgets) ==
  <<[k \in DOMAIN dict |-> FALSE],
    [k \in (DOMAIN widgets) \cup (DOMAIN dict) |->
       IF k \in DOMAIN dict THEN FALSE ELSE widgets[k]]>>

\* clear_search()
clear_search == <<>>

(***************************************************************************)
(* The script run (lines 166-317)                                          *)
(***************************************************************************)
\* df_pivot before any file was loaded
Unset ==
  [kind |-> "unset", index |-> <<>>, columns |-> {}, data |-> <<>>,
   error |-> "none"]

\* what a run that renders no sidebar shows
Page(message) ==
  [message |-> message, sidebar |-> FALSE, filtered_options |-> {},
   btn_label |-> [matches |-> FALSE, count |-> 0],
   plot |-> "none", figure |-> "none", plot_data |-> Unset]

\* the dictionary rebuilt from the table's columns on every run
ResetSensorStates(dict, widgets, keys, all_metrics) ==
  <<[sensor \in all_metrics |-> FALSE],
    [k \in (DOMAIN widgets) \cup all_metrics |->
       IF k \in DOMAIN widgets THEN widgets[k] ELSE FALSE]>>

\* lines 178-188: the dictionary is created on the first table, and gets the
\* new columns of a later one; the result is <<dictionary, widgets>>
InitSensorStates(dict, widgets, keys, all_metrics) ==
  IF "sensor_states_dict" \notin keys
    THEN <<[sensor \in all_metrics |-> FALSE],
           [k \in (DOMAIN widgets) \cup all_metrics |->
              IF k \in DOMAIN widgets THEN widgets[k] ELSE FALSE]>>
    ELSE <<[k \in (DOMAIN dict) \cup all_metrics |->
              IF k \in DOMAIN dict THEN dict[k] ELSE FALSE],
           widgets>>

\* lines 224-229: the sensors listed in the sidebar
FilteredOptions(all_metrics, search_text) ==
  IF search_text # <<>>
    THEN {m \in all_metrics : Contains(Lower(m), Lower(search_text))}
    ELSE all_metrics

\* lines 224-229: "Select Matches (n)" or "Select All"
ButtonLabel(all_metrics, search_text) ==
  IF search_text # <<>>
    THEN [matches |-> TRUE,
          count |-> Cardinality(FilteredOptions(all_metrics, search_text))]
    ELSE [matches |-> FALSE, count |-> 0]

\* lines 233-236: a listed sensor without a widget key gets the dictionary's
\* value
RenderCheckboxes(dict, widgets, filtered_options) ==
  [k \in (DOMAIN widgets) \cup filtered_options |->
     IF k \in DOMAIN widgets THEN widgets[k] ELSE dict[k]]

\* line 263
ValidMetrics(metrics_to_plot, df) ==
  {m \in metrics_to_plot : m \in df.columns}

\* df_pivot[valid_metrics].copy()
SelectColumns(df, valid_metrics) ==
  Table(df.index, valid_metrics, [c \in valid_metrics |-> df.data[c]])

ColumnMin(col) ==
  CHOOSE v \in {col[i] : i \in 1..Len(col)} :
    \A i \in 1..Len(col) : FracLeq(v, col[i])
ColumnMax(col) ==
  CHOOSE v \in {col[i] : i \in 1..Len(col)} :
    \A i \in 1..Len(col) : FracLeq(col[i], v)

\* the denominator used as it is
KeepZero(denom) == denom

\* denom.replace(0, 1)
ReplaceZero(denom) == IF denom = FromInt(0) THEN FromInt(1) ELSE denom

\* lines 270-271 on one column
NormalizeColumn(col) ==
  LET denom == FracSub(ColumnMax(col), ColumnMin(col))
  IN  [i \in 1..Len(col) |->
         FracDiv(FracSub(col[i], ColumnMin(col)), ReplaceZero(denom))]

\* lines 268-271
Normalize(plot_data) ==
  Table(plot_data.index, plot_data.columns,
        [c \in plot_data.columns |-> NormalizeColumn(plot_data.data[c])])

\* the plotting step without the test of valid_metrics
PlotStepUnchecked(df, dict, keys, norm, split, trigger_plot) ==
  IF trigger_plot \/ "graph_active" \in keys
    THEN
      LET metrics_to_plot == get_selected_list(dict)
          valid_metrics == {m \in metrics_to_plot : m \in df.columns}
          plot_data == Table(df.index, valid_metrics,
                             [c \in valid_metrics |-> df.data[c]])
      IN  IF metrics_to_plot # {}
            THEN <<"chart", IF split THEN "facet" ELSE "combined",
                   plot_data, TRUE>>
            ELSE <<"select_info", "none", Unset, TRUE>>
    ELSE <<"none", "none", Unset, FALSE>>

\* lines 255-314: <<plot, figure, plot_data, graph_active set>>
PlotStep(df, dict, keys, norm, split, trigger_plot) ==
  IF trigger_plot \/ "graph_active" \in keys
    THEN
      LET metrics_to_plot == get_selected_list(dict)
          valid_metrics == ValidMetrics(metrics_to_plot, df)
          plot_data == IF norm THEN Normalize(SelectColumns(df, valid_metrics))
                       ELSE SelectColumns(df, valid_metrics)
      IN  IF metrics_to_plot # {}
            THEN IF valid_metrics # {}
                   THEN <<"chart", IF split THEN "facet" ELSE "combined",
                          plot_data, TRUE>>
                   ELSE <<"not_found", "none", Unset, TRUE>>
            ELSE <<"select_info", "none", Unset, TRUE>>
    ELSE <<"none", "none", Unset, FALSE>>

\* the format error taken as the end of the session's state
FormatErrorRunResets(df, dict, widgets, keys) ==
  [df |-> df, dict |-> <<>>, chk |-> <<>>, keys |-> {},
   shown |-> [message |-> "format_error", sidebar |-> FALSE,
              filtered_options |-> {},
              btn_label |-> [matches |-> FALSE, count |-> 0],
              plot |-> "none", figure |-> "none", plot_data |-> Unset]]

\* lines 169-172: the format error; the session state is not touched
FormatErrorRun(df, dict, widgets, keys) ==
  [df |-> df, dict |-> dict, chk |-> widgets, keys |-> keys,
   shown |-> Page("format_error")]

\* lines 174-314: the run on a loaded table
TableRun(df, dict, widgets, keys, search, norm, split, trigger_plot) ==
  LET all_metrics == df.columns
      init == InitSensorStates(dict, widgets, keys, all_metrics)
      keys1 == keys \cup {"sensor_states_dict", "search_box"}
      filtered_options == FilteredOptions(all_metrics, search)
      widgets1 == RenderCheckboxes(init[1], init[2], filtered_options)
      plot == PlotStep(df, init[1], keys1, norm, split, trigger_plot)
  IN  [df |-> df, dict |-> init[1], chk |-> widgets1,
       keys |-> IF plot[4] THEN keys1 \cup {"graph_active"} ELSE keys1,
       shown |-> [message |-> "none", sidebar |-> TRUE,
                  filtered_options |-> filtered_options,
                  btn_label |-> ButtonLabel(all_metrics, search),
                  plot |-> plot[1], figure |-> plot[2],
                  plot_data |-> plot[3]]]

\* one run of the script, top to bottom; df_pivot exists only in a run that
\* has a file
Script(file, dict, widgets, keys, search, norm, split, trigger_plot) ==
  IF ~file.present
    THEN [df |-> Unset, dict |-> dict, chk |-> widgets, keys |-> keys,
          shown |-> Page("upload_prompt")]
    ELSE
      LET df == load_data(file)
      IN  IF df.kind = "raise"
            THEN [df |-> df, dict |-> dict, chk |-> widgets, keys |-> keys,
                  shown |-> Page("exception")]
          ELSE IF df.kind = "none"
            THEN FormatErrorRun(df, dict, widgets, keys)
          ELSE TableRun(df, dict, widgets, keys, search, norm, split,
                        trigger_plot)

\* the state after a run
Apply(r, file, search, norm, split) ==
  /\ uploaded_file' = file
  /\ df_pivot' = r.df
  /\ sensor_states_dict' = r.dict
  /\ chk' = r.chk
  /\ state_keys' = r.keys
  /\ search_box' = search
  /\ normalize' = norm
  /\ split_graphs' = split
  /\ shown' = r.shown

(***************************************************************************)
(* User interactions: the widget changes, its callback runs, the script    *)
(* runs again                                                              *)
(***************************************************************************)
\* a file is dropped into the uploader (line 75)
Upload(f) ==
  /\ f # uploaded_file
  /\ Apply(Script(f, sensor_states_dict, chk, state_keys,
                  search_box, normalize, split_graphs, FALSE),
           f, search_box, normalize, split_graphs)

\* the file is removed from the uploader
RemoveFile ==
  /\ uploaded_file.present
  /\ Apply(Script(NoFile, sensor_states_dict, chk, state_keys,
                  search_box, normalize, split_graphs, FALSE),
           NoFile, search_box, normalize, split_graphs)

\* a listed checkbox is clicked (lines 238-243, on_change=toggle_sensor)
ToggleCheckbox(sensor) ==
  /\ shown.sidebar
  /\ sensor \in shown.filtered_options
  /\ LET widgets == [chk EXCEPT ![sensor] = ~chk[sensor]]
         dict == toggle_sensor(sensor_states_dict, widgets, sensor)
     IN  Apply(Script(uploaded_file, dict, widgets, state_keys,
                      search_box, normalize, split_graphs, FALSE),
               uploaded_file, search_box, normalize, split_graphs)

\* "Select All" / "Select Matches (n)" is clicked (line 248)
ClickSelectMatches ==
  /\ shown.sidebar
  /\ LET cb == select_visible_matches(sensor_states_dict, chk, search_box)
     IN  Apply(Script(uploaded_file, cb[1], cb[2], state_keys,
                      search_box, normalize, split_graphs, FALSE),
               uploaded_file, search_box, normalize, split_graphs)

\* "Uncheck All" is clicked (line 250)
ClickUncheckAll ==
  /\ shown.sidebar
  /\ LET cb == deselect_all(sensor_states_dict, chk)
     IN  Apply(Script(uploaded_file, cb[1], cb[2], state_keys,
                      search_box, normalize, split_graphs, FALSE),
               uploaded_file, search_box, normalize, split_graphs)

\* "Clear" is clicked (line 252)
ClickClear ==
  /\ shown.sidebar
  /\ Apply(Script(uploaded_file, sensor_states_dict, chk,
                  state_keys, clear_search, normalize, split_graphs, FALSE),
           uploaded_file, clear_search, normalize, split_graphs)

\* text is typed into the search box (lines 217-222)
TypeSearch(text) ==
  /\ shown.sidebar
  /\ text # search_box
  /\ Apply(Script(uploaded_file, sensor_states_dict, chk,
                  state_keys, text, normalize, split_graphs, FALSE),
           uploaded_file, text, normalize, split_graphs)

\* the "Normalize Data" checkbox is clicked (line 196)
ToggleNormalize ==
  /\ shown.sidebar
  /\ Apply(Script(uploaded_file, sensor_states_dict, chk,
                  state_keys, search_box, ~normalize, split_graphs, FALSE),
           uploaded_file, search_box, ~normalize, split_graphs)

\* the "Split Graphs" checkbox is clicked (line 198)
ToggleSplit ==
  /\ shown.sidebar
  /\ Apply(Script(uploaded_file, sensor_states_dict, chk,
                  state_keys, search_box, normalize, ~split_graphs, FALSE),
           uploaded_file, search_box, normalize, ~split_graphs)

\* "Update Graph" is clicked (line 200)
ClickUpdateGraph ==
  /\ shown.sidebar
  /\ Apply(Script(uploaded_file, sensor_states_dict, chk,
                  state_keys, search_box, normalize, split_graphs, TRUE),
           uploaded_file, search_box, normalize, split_graphs)

\* the session before the first interaction
Init ==
  /\ uploaded_file = NoFile
  /\ df_pivot = Unset
  /\ sensor_states_dict = <<>>
  /\ chk = <<>>
  /\ state_keys = {}
  /\ search_box = <<>>
  /\ normalize = FALSE
  /\ split_graphs = FALSE
  /\ shown = Page("upload_prompt")

(***************************************************************************)
(* Uploaded files                                                          *)
(***************************************************************************)
\* the lines whose j-th cell is drawn from cells[j]
Lines(cells) ==
  {row \in [1..Len(cells) -> UNION {cells[j] : j \in 1..Len(cells)}] :
     \A j \in 1..Len(cells) : row[j] \in cells[j]}

\* a family of files: a header and, per column, the cells a line may hold
Family(header, cells) == [header |-> header, cells |-> cells]

\* a file of zero bytes
EmptyFile == CsvFile(<<>>, <<>>)

LongHeader == <<SECONDS, PID, VALUE>>
WideHeader == <<TIME_MS, RPM, MAP>>

\* long format, two sensors over three timestamps: duplicates and gaps
LongGaps ==
  Family(LongHeader,
         <<{<<"2">>, <<"3">>, <<"1", "0">>},
           {RPM, MAP},
           {<<"1">>, <<"3">>}>>)
\* long format with empty VALUE cells
LongEmptyValues ==
  Family(LongHeader,
         <<{<<"2">>, <<"3">>}, {RPM, MAP}, {Empty, <<"3">>}>>)
\* long format with text in SECONDS and in VALUE
LongText ==
  Family(LongHeader,
         <<{<<"2">>, <<"1", "0">>, <<"x">>},
           {RPM},
           {<<"3">>, <<"x">>, Dash}>>)
\* long format, header names padded with blanks
LongPadded ==
  Family(<<<<" ">> \o SECONDS, PID \o <<" ">>, <<" ">> \o VALUE \o <<" ">>>>,
         <<{<<"2">>, <<"3">>}, {RPM}, {<<"1">>, <<"3">>}>>)
\* both formats' marker columns: the long format wins
LongAndWide ==
  Family(<<TIME_MS, SECONDS, PID, VALUE>>,
         <<{<<"2">>}, {<<"2">>, <<"3">>}, {MAP}, {<<"1">>, <<"3">>}>>)
\* wide format over three timestamps: duplicates and gaps
WideGaps ==
  Family(WideHeader,
         <<{<<"2">>, <<"3">>, <<"1", "0">>},
           {Dash, <<"1">>, <<"3">>},
           {<<"3">>}>>)
\* wide format, placeholders in both sensor columns
WideDashes ==
  Family(WideHeader,
         <<{<<"2">>, <<"3">>}, {Dash, <<"3">>}, {Dash, <<"3">>}>>)
\* wide format with empty and text cells, in time(ms) too
WideText ==
  Family(WideHeader,
         <<{Empty, <<"2">>, <<"x">>},
           {Empty, <<"x">>, <<"3">>},
           {<<"3">>}>>)
\* neither format: VALUE and time(ms) are missing
Unrecognized ==
  Family(<<SECONDS, PID, RPM>>,
         <<{<<"2">>}, {RPM}, {<<"1">>, <<"x">>}>>)

Families ==
  {LongGaps, LongEmptyValues, LongText, LongPadded, LongAndWide,
   WideGaps, WideDashes, WideText, Unrecognized}

\* load_data on every bounded upload: one upload into a fresh session
UploadEmpty == uploaded_file = NoFile /\ Upload(EmptyFile)
UploadFrom(fam) ==
  /\ uploaded_file = NoFile
  /\ \E n \in 1..MaxRows :
       \E rows \in [1..n -> Lines(fam.cells)] :
         Upload(CsvFile(fam.header, rows))
NextLoad == UploadEmpty \/ \E fam \in Families : UploadFrom(fam)
SpecLoad == Init /\ [][NextLoad]_vars

(***************************************************************************)
(* The session: uploads of a few fixed files and every sidebar interaction *)
(***************************************************************************)
\* SECONDS;PID;VALUE with the sensors RPM and MAP
FileLong ==
  CsvFile(LongHeader,
          << <<<<"2">>, RPM, <<"1">>>>, <<<<"2">>, MAP, <<"3">>>>,
             <<<<"3">>, RPM, <<"3">>>> >>)
\* time(ms);MAP;Temp
FileWide ==
  CsvFile(<<TIME_MS, MAP, Temp>>,
          << <<<<"2">>, <<"1">>, <<"3">>>>, <<<<"3">>, <<"3">>, <<"3">>>> >>)
\* neither format
FileOther ==
  CsvFile(<<SECONDS, PID, RPM>>, << <<<<"2">>, RPM, <<"1">>>> >>)

SessionFiles == {FileLong, FileWide, FileOther, EmptyFile}
Sensors == {RPM, MAP, Temp}
SearchTexts == {<<>>, <<"R", "p">>, <<"a", "p">>}

Next ==
  \/ \E f \in SessionFiles : Upload(f)
  \/ RemoveFile
  \/ \E sensor \in Sensors : ToggleCheckbox(sensor)
  \/ ClickSelectMatches
  \/ ClickUncheckAll
  \/ ClickClear
  \/ \E text \in SearchTexts : TypeSearch(text)
  \/ ToggleNormalize
  \/ ToggleSplit
  \/ ClickUpdateGraph

Spec == Init /\ [][Next]_vars

(***************************************************************************)
(* Normalization: one upload of a numeric wide file, then Select All,      *)
(* Normalize Data and Update Graph                                         *)
(***************************************************************************)
NormFamily ==
  Family(WideHeader,
         <<{<<"2">>, <<"3">>}, {<<"1">>, <<"3">>}, {Dash, <<"3">>}>>)

NextNorm ==
  \/ UploadFrom(NormFamily)
  \/ ClickSelectMatches
  \/ ToggleNormalize
  \/ ClickUpdateGraph

SpecNorm == Init /\ [][NextNorm]_vars

(***************************************************************************)
(* Properties of load_data, under SpecLoad                                 *)
(***************************************************************************)
FileColumns == StripColumns(uploaded_file.header)
FileRows == uploaded_file.rows
Loaded == uploaded_file.present /\ df_pivot.kind = "table"
LoadedLong == Loaded /\ IsLongFormat(FileColumns)
LoadedWide == Loaded /\ IsWideFormat(FileColumns)

\* C1: every upload ends in a table or in the unrecognized-format result
\* None; load_data never ends in an exception.
C1_TableOrNone ==
  uploaded_file.present => df_pivot.kind \in {"table", "none"}

\* the seconds a row key stands for, when its text is a number
KeyIsNumber(k) == ~IsStrKey(k) \/ IsNumber(k.str)
KeySeconds(k) == IF IsStrKey(k) THEN FromInt(NumberOf(k.str)) ELSE k.val

\* C2: every returned table has no missing cell, row keys (seconds) in
\* ascending order without duplicates, and no column entirely missing.
C2_CanonicalTable ==
  Loaded =>
    /\ \A c \in df_pivot.columns : \A i \in 1..Len(df_pivot.index) :
         ~IsNaN(df_pivot.data[c][i])
    /\ \A i, j \in 1..Len(df_pivot.index) :
         (i < j /\ KeyIsNumber(df_pivot.index[i])
                /\ KeyIsNumber(df_pivot.index[j]))
           => FracLess(KeySeconds(df_pivot.index[i]),
                       KeySeconds(df_pivot.index[j]))
    /\ \A c \in df_pivot.columns : \E i \in 1..Len(df_pivot.index) :
         ~IsNaN(df_pivot.data[c][i])

\* the part of C2 that holds of every returned table: no missing cell, no
\* empty column, and keys strictly ascending in the index's own order
FilledAndSorted ==
  Loaded =>
    /\ \A c \in df_pivot.columns :
         /\ Len(df_pivot.index) > 0
         /\ \A i \in 1..Len(df_pivot.index) : ~IsNaN(df_pivot.data[c][i])
    /\ \A i, j \in 1..Len(df_pivot.index) :
         i < j => KeyLess(df_pivot.index[i], df_pivot.index[j])

RECURSIVE TotalValue(_, _, _)
TotalValue(rows, v, Q) ==
  IF Q = {} THEN 0
  ELSE LET q == CHOOSE x \in Q : TRUE
       IN  NumberOf(rows[q][v]) + TotalValue(rows, v, Q \ {q})

\* the lines of a long-format file that share line r's SECONDS and PID and
\* carry a value
SamePair(r) ==
  LET s == ColumnIndex(FileColumns, SECONDS)
      p == ColumnIndex(FileColumns, PID)
      v == ColumnIndex(FileColumns, VALUE)
  IN  {q \in 1..Len(FileRows) :
         /\ FileRows[q][s] = FileRows[r][s]
         /\ FileRows[q][p] = FileRows[r][p]
         /\ IsNumber(FileRows[q][v])}

\* C3: in the table of a long-format file, the cell of every (SECONDS, PID)
\* pair that has a value is the arithmetic mean of the pair's values.
C3_MeanOfDuplicates ==
  LoadedLong =>
    LET s == ColumnIndex(FileColumns, SECONDS)
        p == ColumnIndex(FileColumns, PID)
        v == ColumnIndex(FileColumns, VALUE)
        numeric == ColumnIsNumeric(FileRows, s)
    IN  \A r \in 1..Len(FileRows) :
          IsNumber(FileRows[r][v]) =>
            /\ FileRows[r][p] \in df_pivot.columns
            /\ \E i \in 1..Len(df_pivot.index) :
                 /\ df_pivot.index[i] = LongKey(FileRows[r][s], numeric)
                 /\ LET cell == df_pivot.data[FileRows[r][p]][i]
                    IN  /\ cell[2] > 0
                        /\ cell[1] * Cardinality(SamePair(r))
                             = TotalValue(FileRows, v, SamePair(r)) * cell[2]

\* a long-format table one of whose pairs has two lines of different value
C3_DuplicatesAveraged ==
  /\ LoadedLong
  /\ \E r, q \in 1..Len(FileRows) :
       /\ q \in SamePair(r)
       /\ r \in SamePair(r)
       /\ FileRows[q][ColumnIndex(FileColumns, VALUE)]
            # FileRows[r][ColumnIndex(FileColumns, VALUE)]

\* the sensor columns of a wide-format file
SensorColumns ==
  {j \in 1..Len(FileColumns) : FileColumns[j] # TIME_MS}
KeyedRows ==
  {r \in 1..Len(FileRows) :
     FileRows[r][ColumnIndex(FileColumns, TIME_MS)] # Empty}

ExpectedFill(col, i) ==
  LET earlier == {j \in 1..(i - 1) : ~IsNaN(col[j])}
      later == {j \in (i + 1)..Len(col) : ~IsNaN(col[j])}
  IN  IF ~IsNaN(col[i]) THEN col[i]
      ELSE IF earlier # {}
        THEN col[CHOOSE j \in earlier : \A k \in earlier : k <= j]
      ELSE IF later # {}
        THEN col[CHOOSE j \in later : \A k \in later : j <= k]
      ELSE NaN

\* C9: in the returned table a cell that was missing after aggregation holds
\* the value of the nearest earlier row of its column that had one, and of
\* the nearest later row only when no earlier row had one; the other cells
\* are unchanged.
C9_ForwardThenBackwardFill ==
  Loaded =>
    LET agg == Aggregate(uploaded_file)
    IN  /\ df_pivot.index = agg.index
        /\ df_pivot.columns = agg.columns
        /\ \A c \in agg.columns : \A i \in 1..Len(agg.index) :
             df_pivot.data[c][i] = ExpectedFill(agg.data[c], i)

\* a table with a hole between two different values of its column
C9_HoleBetweenValues ==
  /\ Loaded
  /\ LET agg == Aggregate(uploaded_file)
     IN  \E c \in agg.columns : \E i \in 2..(Len(agg.index) - 1) :
           /\ IsNaN(agg.data[c][i])
           /\ ~IsNaN(agg.data[c][i - 1])
           /\ ~IsNaN(agg.data[c][i + 1])
           /\ agg.data[c][i - 1] # agg.data[c][i + 1]
           /\ df_pivot.data[c][i] = agg.data[c][i - 1]

(***************************************************************************)
(* Properties of the session, under Spec                                   *)
(***************************************************************************)
Selected == get_selected_list(sensor_states_dict)
\* the last run reached the plotting step (line 255)
RenderRan == shown.sidebar /\ "graph_active" \in state_keys

C6_KeysOnlyAdded ==
  [][/\ DOMAIN sensor_states_dict \subseteq DOMAIN sensor_states_dict'
     /\ (uploaded_file' # uploaded_file /\ df_pivot'.kind = "table") =>
          /\ DOMAIN sensor_states_dict'
               = (DOMAIN sensor_states_dict) \cup df_pivot'.columns
          /\ \A k \in DOMAIN sensor_states_dict :
               sensor_states_dict'[k] = sensor_states_dict[k]
          /\ \A k \in (DOMAIN sensor_states_dict') \ (DOMAIN sensor_states_dict) :
               sensor_states_dict'[k] = FALSE]_vars

\* a sensor selected under an earlier file, still selected under a table
\* that has no such column
C6_SelectionSurvivesNewFile ==
  /\ df_pivot.kind = "table"
  /\ shown.sidebar
  /\ \E k \in Selected : k \notin df_pivot.columns

\* C7: when the plotting step ran, a chart is drawn if and only if a
\* selected sensor is a column of the table; without a selection the
\* guidance message is shown, with a selection of absent names the
\* 'not found' warning, and no exception is raised.
C7_ChartIffValidSelection ==
  RenderRan =>
    /\ shown.message = "none"
    /\ (shown.plot = "chart") <=> (Selected \cap df_pivot.columns # {})
    /\ (Selected = {}) => shown.plot = "select_info"
    /\ (Selected # {} /\ Selected \cap df_pivot.columns = {})
         => shown.plot = "not_found"
    /\ shown.plot # "chart" => shown.plot_data.kind = "unset"

\* the 'not found' warning: sensors are selected, none is a column
C7_NotFoundShown ==
  /\ RenderRan
  /\ Selected # {}
  /\ Selected \cap df_pivot.columns = {}
  /\ shown.plot = "not_found"

\* the click on Select All / Select Matches as the user sees it: the
\* sensors it turns on are those listed in the sidebar
ListedAtClick == shown.filtered_options

\* C10: a click on Select All / Select Matches selects exactly the sensors
\* listed in the sidebar, as many as the button's label counts, and none
\* that is not a column of the current table.
C10_SelectsTheListed ==
  [][ClickSelectMatches =>
       /\ get_selected_list(sensor_states_dict')
            = Selected \cup ListedAtClick
       /\ shown.btn_label.matches =>
            Cardinality(SelectMatches(sensor_states_dict, search_box))
              = shown.btn_label.count
       /\ get_selected_list(sensor_states_dict') \ Selected
            \subseteq df_pivot.columns]_vars

(***************************************************************************)
(* Properties of the normalization, under SpecNorm                         *)
(***************************************************************************)
AllEqual(col) == \A i, j \in 1..Len(col) : col[i] = col[j]

\* C8: with Normalize Data set, every plotted column is (x - min) /
\* (max - min) of the table's column; a column of equal values becomes all
\* zeros, every other column has minimum 0, maximum 1 and values in [0, 1].
C8_Normalized ==
  (shown.plot = "chart" /\ normalize) =>
    \A c \in shown.plot_data.columns :
      LET raw == df_pivot.data[c]
          out == shown.plot_data.data[c]
          lo == CHOOSE v \in {raw[i] : i \in 1..Len(raw)} :
                  \A i \in 1..Len(raw) : FracLeq(v, raw[i])
          hi == CHOOSE v \in {raw[i] : i \in 1..Len(raw)} :
                  \A i \in 1..Len(raw) : FracLeq(raw[i], v)
      IN  /\ Len(out) = Len(raw)
          /\ \A i \in 1..Len(out) : out[i][2] > 0
          /\ IF AllEqual(raw)
               THEN \A i \in 1..Len(out) : out[i] = FromInt(0)
               ELSE /\ \E i \in 1..Len(out) : out[i] = FromInt(0)
                    /\ \E i \in 1..Len(out) : out[i] = FromInt(1)
                    /\ \A i \in 1..Len(out) :
                         /\ FracLeq(FromInt(0), out[i])
                         /\ FracLeq(out[i], FromInt(1))
                         \* out[i] * (hi - lo) = raw[i] - lo
                         /\ out[i][1] * (hi[1] * lo[2] - lo[1] * hi[2])
                                * raw[i][2]
                              = out[i][2] * (raw[i][1] * lo[2] - lo[1] * raw[i][2])
                                * hi[2]

\* a normalized chart of a column of equal values beside one that varies
C8_FlatAndVarying ==
  /\ shown.plot = "chart"
  /\ normalize
  /\ \E c, d \in shown.plot_data.columns :
       /\ AllEqual(df_pivot.data[c])
       /\ Len(df_pivot.data[c]) > 1
       /\ ~AllEqual(df_pivot.data[d])

====
